---- MODULE Spec2Model ----
(***************************************************************************)
(* Appointment scheduling and conflict detection engine                     *)
(* (backend/app/services/appointment_service.py, class AppointmentService). *)
(*                                                                          *)
(* Time is counted in minutes.  A civil date "YYYY-MM-DD" is a day index,   *)
(* a time of day "HH:MM" is the pair <<HH, MM>> (compared as the zero       *)
(* padded string the code compares), and a datetime is the number of        *)
(* minutes since 00:00 of day 0.  Day 0 is a Sunday.                        *)
(***************************************************************************)
EXTENDS Integers, Sequences, FiniteSets, TLC

VARIABLES
    now,                 \* datetime.now(), minutes since day 0 00:00
    appointments,        \* database.appointments, in insertion order
    reschedule_history,  \* database.reschedule_history
    reminders,           \* database.appointment_reminders
    response,            \* what the last call returned or raised
    tasks                \* book_appointment coroutines in flight

vars == <<now, appointments, reschedule_history, reminders, response, tasks>>

(***************************************************************************)
(* Bounds of the model and constants of the program.                        *)
(***************************************************************************)
MaxAppointments == 2

MaxTasks == 2

SlotMinutes == 30

MinAdvanceHours == 24

FullRefundHours == 24

HalfRefundHours == 6

consultation_fee == 100

MaxAlternatives == 5

LongReminderHours == 24

ShortReminderHours == 1

NoId == 0

NoTime == -1

NoReason == <<>>

\* The requests the model draws its inputs from: provider, date, time and
\* duration (15..180 minutes).  Day 1 is a Monday, day 2 a Tuesday.
Doctors == {"d1", "d2"}

BookingInputs ==
    { [doctor_id |-> "d1", date |-> 1, time |-> <<10, 0>>,  duration |-> 30],
      [doctor_id |-> "d1", date |-> 1, time |-> <<10, 30>>, duration |-> 30],
      [doctor_id |-> "d1", date |-> 1, time |-> <<9, 59>>,  duration |-> 180],
      [doctor_id |-> "d1", date |-> 1, time |-> <<23, 0>>,  duration |-> 180],
      [doctor_id |-> "d1", date |-> 2, time |-> <<0, 30>>,  duration |-> 15],
      [doctor_id |-> "d2", date |-> 1, time |-> <<10, 0>>,  duration |-> 30] }

\* The requests made while the clock runs: 10:00 and 09:59 on day 1 (one
\* minute apart, so that both sides of a deadline are met) and 23:00.
TimedInputs ==
    { req \in BookingInputs :
        req.doctor_id = "d1" /\ req.date = 1 /\ req.time # <<10, 30>> }

QueryDates == {0, 1}

\* The instants the clock can show.
ClockValues == {0, 600, 1680, 2041}

(***************************************************************************)
(* Dates, times and strings.                                                *)
(***************************************************************************)
\* datetime.strptime(f"{date} {time}", "%Y-%m-%d %H:%M")
ParseDateTime(date, time) ==
    date * 1440 + time[1] * 60 + time[2]

\* datetime.strptime(s, "%H:%M").time(), as minutes since midnight
ParseTime(time) == time[1] * 60 + time[2]

\* time.strftime("%H:%M")
FormatTime(minutes) == <<minutes \div 60, minutes % 60>>

\* The characters of "HH:MM" that carry digits.
TimeDigits(time) ==
    <<time[1] \div 10, time[1] % 10, time[2] \div 10, time[2] % 10>>

RECURSIVE LexLeq(_, _)
LexLeq(a, b) ==
    IF a = <<>> THEN TRUE
    ELSE IF Head(a) < Head(b) THEN TRUE
    ELSE IF Head(a) > Head(b) THEN FALSE
    ELSE LexLeq(Tail(a), Tail(b))

\* The string comparison behind {"appointment_time": {"$lte": ...}}
StrLeq(s, t) == LexLeq(TimeDigits(s), TimeDigits(t))

DayNames ==
    <<"sunday", "monday", "tuesday", "wednesday", "thursday", "friday", "saturday">>

\* datetime.strptime(date, "%Y-%m-%d").strftime("%A").lower()
DayName(date) == DayNames[(date % 7) + 1]

\* ActiveStatuses with no_show counted in.
ActiveStatusesAndNoShow == {"scheduled", "confirmed", "in_progress", "no_show"}

ActiveStatuses == {"scheduled", "confirmed", "in_progress"}

Range(seq) == { seq[i] : i \in 1..Len(seq) }

(***************************************************************************)
(* Conflict Detector: check_conflict_detection.                             *)
(***************************************************************************)
\* {"$toDate": {"$concat": ["$appointment_date", " ", "$appointment_time"]}}
DocStart(apt) == ParseDateTime(apt.appointment_date, apt.appointment_time)

\* {"$add": [<start>, {"$multiply": ["$duration_minutes", 60000]}]}
DocEnd(apt) == DocStart(apt) + apt.duration_minutes

\* First $or branch: "new appointment starts during existing appointment".
StartsDuringExisting(apt, date, time, start_time) ==
    /\ apt.appointment_date = date
    /\ StrLeq(apt.appointment_time, time)
    /\ DocEnd(apt) >= start_time

\* Second $or branch: "new appointment ends during existing appointment".
EndsDuringExisting(apt, date, time, end_time) ==
    /\ apt.appointment_date = date
    /\ StrLeq(time, apt.appointment_time)
    /\ DocStart(apt) <= end_time

\* The documents the conflict query matches in store.
ConflictQuery(store, doctor_id, date, time, duration_minutes, exclude_id) ==
    LET start_time == ParseDateTime(date, time)
        end_time   == start_time + duration_minutes
    IN { apt \in Range(store) :
           /\ apt.doctor_id = doctor_id
           /\ apt.status \in ActiveStatuses
           /\ \/ StartsDuringExisting(apt, date, time, start_time)
              \/ EndsDuringExisting(apt, date, time, end_time)
           /\ (exclude_id # NoId => apt.appointment_id # exclude_id) }

(***************************************************************************)
(* Availability Calculator: get_real_time_availability.                     *)
(***************************************************************************)
\* _get_doctor_working_hours: the same template for every doctor.
WorkingHours(day_name) ==
    IF day_name \in {"saturday", "sunday"}
    THEN <<>>
    ELSE << <<(<<9, 0>>), (<<17, 0>>)>> >>

\* SlotWalk with the last slot of a range lost (slot_end_time < end_time).
RECURSIVE SlotWalkShort(_, _, _)
SlotWalkShort(current_time, end_time, booked_slots) ==
    IF ~(current_time < end_time) THEN <<>>
    ELSE LET slot_end_time == (current_time + SlotMinutes) % 1440
             slot == [start_time   |-> FormatTime(current_time),
                      end_time     |-> FormatTime(slot_end_time),
                      is_available |->
                          <<FormatTime(current_time), SlotMinutes>> \notin booked_slots]
         IN (IF slot_end_time < end_time THEN <<slot>> ELSE <<>>)
            \o SlotWalkShort(slot_end_time, end_time, booked_slots)

\* The while loop over one working-hour range.  current_time and end_time are
\* times of day; slot_end.time() wraps at midnight.
RECURSIVE SlotWalk(_, _, _)
SlotWalk(current_time, end_time, booked_slots) ==
    IF ~(current_time < end_time) THEN <<>>
    ELSE LET slot_end_time == (current_time + SlotMinutes) % 1440
             slot == [start_time   |-> FormatTime(current_time),
                      end_time     |-> FormatTime(slot_end_time),
                      is_available |->
                          <<FormatTime(current_time), SlotMinutes>> \notin booked_slots]
         IN (IF slot_end_time <= end_time THEN <<slot>> ELSE <<>>)
            \o SlotWalk(slot_end_time, end_time, booked_slots)

RECURSIVE RangesWalk(_, _)
RangesWalk(ranges, booked_slots) ==
    IF ranges = <<>> THEN <<>>
    ELSE SlotWalk(ParseTime(Head(ranges)[1]), ParseTime(Head(ranges)[2]), booked_slots)
         \o RangesWalk(Tail(ranges), booked_slots)

\* _calculate_day_availability(date, working_hours, appointments)
CalculateDayAvailability(date, active) ==
    IF WorkingHours(DayName(date)) = <<>>
    THEN [date |-> date, slots |-> <<>>, is_working_day |-> FALSE]
    ELSE LET day_appointments == { apt \in active : apt.appointment_date = date }
             booked_slots == { <<apt.appointment_time, apt.duration_minutes>> :
                                  apt \in day_appointments }
         IN [date |-> date,
             slots |-> RangesWalk(WorkingHours(DayName(date)), booked_slots),
             is_working_day |-> TRUE]

\* get_real_time_availability(doctor_id, start_date, end_date).availability
RealTimeAvailability(store, doctor_id, start_date, end_date) ==
    LET active == { apt \in Range(store) :
                      /\ apt.doctor_id = doctor_id
                      /\ apt.appointment_date >= start_date
                      /\ apt.appointment_date <= end_date
                      /\ apt.status \in ActiveStatuses }
    IN [ k \in 1..(IF end_date >= start_date THEN end_date - start_date + 1 ELSE 0) |->
           CalculateDayAvailability(start_date + k - 1, active) ]

\* _get_suggested_alternatives(doctor_id, date, duration_minutes)
SuggestedAlternatives(store, doctor_id, date, duration_minutes) ==
    LET days == RealTimeAvailability(store, doctor_id, date, date)
        slots == IF Len(days) > 0 /\ days[1].date = date THEN days[1].slots ELSE <<>>
        free == SelectSeq(slots, LAMBDA slot : slot.is_available)
    IN [ k \in 1..Len(free) |->
           [date |-> date, time |-> free[k].start_time, end_time |-> free[k].end_time,
            duration |-> duration_minutes] ]

\* FirstN without the cut.
FirstNAll(seq, n) == seq

\* alternatives[:5]
FirstN(seq, n) == SubSeq(seq, 1, IF Len(seq) < n THEN Len(seq) ELSE n)

\* ConflictFound that never reports a conflict.
ConflictFoundNever(store, doctor_id, date, time, duration_minutes, exclude_id) == FALSE

\* len(conflicts) > 0: the one field of the result that book_appointment and
\* reschedule_appointment read.
ConflictFound(store, doctor_id, date, time, duration_minutes, exclude_id) ==
    Cardinality(ConflictQuery(store, doctor_id, date, time, duration_minutes,
                              exclude_id)) > 0

\* What check_conflict_detection returns.
CheckConflictDetection(store, doctor_id, date, time, duration_minutes, exclude_id) ==
    LET conflicts == ConflictQuery(store, doctor_id, date, time, duration_minutes, exclude_id)
    IN [conflict_found |->
            ConflictFound(store, doctor_id, date, time, duration_minutes, exclude_id),
        checked_time_range |->
            [start |-> ParseDateTime(date, time),
             end   |-> ParseDateTime(date, time) + duration_minutes],
        conflicting_appointments |-> { apt.appointment_id : apt \in conflicts },
        suggested_alternatives |->
            FirstN(SuggestedAlternatives(store, doctor_id, date, duration_minutes),
                   MaxAlternatives)]

(***************************************************************************)
(* Refund Calculator and Reminder Scheduler.                                *)
(***************************************************************************)
\* CalculateRefund with the 24-hour tier entered only above 24 hours.
CalculateRefundStrict(apt, t) ==
    IF apt.status \in {"completed", "no_show"} THEN <<0, 0>>
    ELSE LET minutes_until == DocStart(apt) - t
             refund_percentage ==
                 IF minutes_until > FullRefundHours * 60 THEN 100
                 ELSE IF minutes_until >= HalfRefundHours * 60 THEN 50
                 ELSE 0
         IN <<(consultation_fee * refund_percentage) \div 100, refund_percentage>>

\* calculate_refund: <<refund_amount, refund_percentage>> at time t.
CalculateRefund(apt, t) ==
    IF apt.status \in {"completed", "no_show"} THEN <<0, 0>>
    ELSE LET minutes_until == DocStart(apt) - t
             refund_percentage ==
                 IF minutes_until >= FullRefundHours * 60 THEN 100
                 ELSE IF minutes_until >= HalfRefundHours * 60 THEN 50
                 ELSE 0
         IN <<(consultation_fee * refund_percentage) \div 100, refund_percentage>>

\* "pending" if refund_amount > 0 else "not_applicable"
RefundStatus(refund_amount) ==
    IF refund_amount > 0 THEN "pending" ELSE "not_applicable"

\* ScheduleReminders that also creates a reminder whose fire time is now.
ScheduleRemindersLate(apt, t) ==
    LET reminder_24h == DocStart(apt) - LongReminderHours * 60
        reminder_1h  == DocStart(apt) - ShortReminderHours * 60
    IN (IF reminder_24h >= t
        THEN <<[appointment_id |-> apt.appointment_id, reminder_time |-> reminder_24h,
                channel |-> "email", status |-> "scheduled"]>>
        ELSE <<>>)
       \o
       (IF reminder_1h >= t
        THEN <<[appointment_id |-> apt.appointment_id, reminder_time |-> reminder_1h,
                channel |-> "sms", status |-> "scheduled"]>>
        ELSE <<>>)

\* _schedule_reminders: the reminder documents inserted for apt at time t.
ScheduleReminders(apt, t) ==
    LET reminder_24h == DocStart(apt) - LongReminderHours * 60
        reminder_1h  == DocStart(apt) - ShortReminderHours * 60
    IN (IF reminder_24h > t
        THEN <<[appointment_id |-> apt.appointment_id, reminder_time |-> reminder_24h,
                channel |-> "email", status |-> "scheduled"]>>
        ELSE <<>>)
       \o
       (IF reminder_1h > t
        THEN <<[appointment_id |-> apt.appointment_id, reminder_time |-> reminder_1h,
                channel |-> "sms", status |-> "scheduled"]>>
        ELSE <<>>)

(***************************************************************************)
(* The store.                                                               *)
(***************************************************************************)
\* str(ObjectId()): an id no document of the store has.
NewId(store) == Len(store) + 1

\* FindOne with the filter on appointment_id lost.
FindOneLoose(store, appointment_id) == Range(store)

FindOne(store, appointment_id) ==
    { apt \in Range(store) : apt.appointment_id = appointment_id }

\* {"$set": fields} applied to one document
SetFields(doc, fields) ==
    [ f \in DOMAIN doc \cup DOMAIN fields |->
        IF f \in DOMAIN fields THEN fields[f] ELSE doc[f] ]

\* update_one({"appointment_id": appointment_id}, {"$set": fields})
UpdateOne(store, appointment_id, fields) ==
    [ i \in 1..Len(store) |->
        IF store[i].appointment_id = appointment_id
        THEN SetFields(store[i], fields)
        ELSE store[i] ]

\* appointment_doc of book_appointment
AppointmentDoc(store, req) ==
    [appointment_id      |-> NewId(store),
     doctor_id           |-> req.doctor_id,
     appointment_date    |-> req.date,
     appointment_time    |-> req.time,
     duration_minutes    |-> req.duration,
     status              |-> "scheduled",
     is_cancelled        |-> FALSE,
     cancelled_at        |-> NoTime,
     cancellation_reason |-> NoReason,
     refund_status       |-> "not_applicable",
     refund_amount       |-> 0]

\* What a call hands back: the value it returns, or the message of the
\* ValueError it raises.
Idle == [op |-> "none", result |-> "none", value |-> <<>>]

Raise(op, message) == [op |-> op, result |-> message, value |-> <<>>]

Return(op, value) == [op |-> op, result |-> "ok", value |-> value]

\* TimingCheck without the 24-hour check.
TimingCheckNoLead(req, t) ==
    IF ParseDateTime(req.date, req.time) <= t
    THEN "Appointment must be scheduled for a future time."
    ELSE "ok"

\* The timing checks of book_appointment: the error raised, or "ok".
TimingCheck(req, t) ==
    LET appointment_datetime == ParseDateTime(req.date, req.time)
    IN IF appointment_datetime <= t
       THEN "Appointment must be scheduled for a future time."
       ELSE IF appointment_datetime < t + MinAdvanceHours * 60
       THEN "Appointments must be booked at least 24 hours in advance."
       ELSE "ok"

\* BookOutcome with the result of the conflict check ignored.
BookOutcomeNoConflict(conflict_found, req, t) == TimingCheck(req, t)

\* What book_appointment does once check_conflict_detection has returned with
\* conflict_check["conflict_found"] = conflict_found: the error it raises, or "ok".
BookOutcome(conflict_found, req, t) ==
    IF conflict_found
    THEN "Time slot is not available. Please choose a different time."
    ELSE TimingCheck(req, t)

(***************************************************************************)
(* The operations, each called alone and run to its end.                    *)
(***************************************************************************)
Init ==
    /\ now = 0
    /\ appointments = <<>>
    /\ reschedule_history = <<>>
    /\ reminders = <<>>
    /\ response = Idle
    /\ tasks = <<>>

\* book_appointment(patient_id, appointment_data)
BookAppointment(req) ==
    LET conflict_found ==
            ConflictFound(appointments, req.doctor_id, req.date, req.time,
                          req.duration, NoId)
        outcome == BookOutcome(conflict_found, req, now)
        appointment_doc == AppointmentDoc(appointments, req)
    IN /\ outcome = "ok" => Len(appointments) < MaxAppointments
       /\ IF outcome = "ok"
          THEN /\ appointments' = Append(appointments, appointment_doc)
               /\ reminders' = reminders \o ScheduleReminders(appointment_doc, now)
               /\ response' = Return("book_appointment", appointment_doc)
          ELSE /\ response' = Raise("book_appointment", outcome)
               /\ UNCHANGED <<appointments, reminders>>
       /\ UNCHANGED <<now, reschedule_history, tasks>>

\* The $set of cancel_appointment
CancelUpdate(refund_amount, reason, t) ==
    [status              |-> "cancelled",
     is_cancelled        |-> TRUE,
     cancelled_at        |-> t,
     cancellation_reason |-> reason,
     refund_status       |-> RefundStatus(refund_amount),
     refund_amount       |-> refund_amount]

\* CancelAppointment that also marks the reminders of the appointment cancelled.
CancelAppointmentRetiring(appointment_id, reason) ==
    LET found == FindOne(appointments, appointment_id)
    IN /\ IF found = {}
          THEN /\ response' = Raise("cancel_appointment", "Appointment not found")
               /\ UNCHANGED <<appointments, reminders>>
          ELSE LET appointment == CHOOSE apt \in found : TRUE
                   refund == CalculateRefund(appointment, now)
               IN IF appointment.status \in {"completed", "cancelled"}
                  THEN /\ response' =
                             Raise("cancel_appointment",
                                   "Cannot cancel completed or already cancelled appointment")
                       /\ UNCHANGED <<appointments, reminders>>
                  ELSE /\ appointments' =
                             UpdateOne(appointments, appointment_id,
                                       CancelUpdate(refund[1], reason, now))
                       /\ reminders' =
                             [k \in DOMAIN reminders |->
                                IF reminders[k].appointment_id = appointment_id
                                THEN [reminders[k] EXCEPT !.status = "cancelled"]
                                ELSE reminders[k]]
                       /\ response' =
                             Return("cancel_appointment",
                                    [appointment_id      |-> appointment_id,
                                     status              |-> "cancelled",
                                     refund_status       |-> RefundStatus(refund[1]),
                                     refund_amount       |-> refund[1],
                                     refund_percentage   |-> refund[2],
                                     cancellation_reason |-> reason,
                                     cancelled_at        |-> now])
       /\ UNCHANGED <<now, reschedule_history, tasks>>

\* cancel_appointment(appointment_id, cancellation_data)
CancelAppointment(appointment_id, reason) ==
    LET found == FindOne(appointments, appointment_id)
    IN /\ IF found = {}
          THEN /\ response' = Raise("cancel_appointment", "Appointment not found")
               /\ UNCHANGED appointments
          ELSE LET appointment == CHOOSE apt \in found : TRUE
                   refund == CalculateRefund(appointment, now)
               IN IF appointment.status \in {"completed", "cancelled"}
                  THEN /\ response' =
                             Raise("cancel_appointment",
                                   "Cannot cancel completed or already cancelled appointment")
                       /\ UNCHANGED appointments
                  ELSE /\ appointments' =
                             UpdateOne(appointments, appointment_id,
                                       CancelUpdate(refund[1], reason, now))
                       /\ response' =
                             Return("cancel_appointment",
                                    [appointment_id      |-> appointment_id,
                                     status              |-> "cancelled",
                                     refund_status       |-> RefundStatus(refund[1]),
                                     refund_amount       |-> refund[1],
                                     refund_percentage   |-> refund[2],
                                     cancellation_reason |-> reason,
                                     cancelled_at        |-> now])
       /\ UNCHANGED <<now, reschedule_history, reminders, tasks>>

\* new_appointment_data of reschedule_appointment
RescheduledDoc(store, current_appointment, new_date, new_time) ==
    [current_appointment EXCEPT !.appointment_id = NewId(store),
                                !.appointment_date = new_date,
                                !.appointment_time = new_time,
                                !.status = "rescheduled"]

\* The $set that retires the old appointment in reschedule_appointment
RetireUpdate(new_date, new_time, t) ==
    [status              |-> "cancelled",
     is_cancelled        |-> TRUE,
     cancelled_at        |-> t,
     cancellation_reason |-> <<"Rescheduled to", new_date, new_time>>]

\* reschedule_appointment(appointment_id, reschedule_data)
RescheduleAppointment(appointment_id, new_date, new_time) ==
    LET found == FindOne(appointments, appointment_id)
    IN /\ IF found = {}
          THEN /\ response' = Raise("reschedule_appointment", "Appointment not found")
               /\ UNCHANGED <<appointments, reschedule_history, reminders>>
          ELSE LET current_appointment == CHOOSE apt \in found : TRUE
                   conflict_found ==
                       ConflictFound(appointments, current_appointment.doctor_id,
                                     new_date, new_time,
                                     current_appointment.duration_minutes,
                                     appointment_id)
                   new_appointment_data ==
                       RescheduledDoc(appointments, current_appointment, new_date, new_time)
               IN IF current_appointment.status \in {"completed", "cancelled"}
                  THEN /\ response' =
                             Raise("reschedule_appointment",
                                   "Cannot reschedule completed or cancelled appointment")
                       /\ UNCHANGED <<appointments, reschedule_history, reminders>>
                  ELSE IF conflict_found
                  THEN /\ response' =
                             Raise("reschedule_appointment",
                                   "New time slot is not available. Please choose a different time.")
                       /\ UNCHANGED <<appointments, reschedule_history, reminders>>
                  ELSE /\ Len(appointments) < MaxAppointments
                       /\ appointments' =
                             UpdateOne(Append(appointments, new_appointment_data),
                                       appointment_id,
                                       RetireUpdate(new_date, new_time, now))
                       /\ reschedule_history' =
                             Append(reschedule_history,
                                    [original_appointment_id |-> appointment_id,
                                     new_appointment_id |-> new_appointment_data.appointment_id,
                                     rescheduled_at |-> now])
                       /\ reminders' = reminders \o ScheduleReminders(new_appointment_data, now)
                       /\ response' =
                             Return("reschedule_appointment",
                                    [old_appointment |-> current_appointment,
                                     new_appointment |-> new_appointment_data])
       /\ UNCHANGED <<now, tasks>>

\* The $set of complete_appointment (completed_at is not part of the model)
CompleteUpdate ==
    [status |-> "completed"]

\* complete_appointment(appointment_id, notes)
CompleteAppointment(appointment_id) ==
    LET updated == UpdateOne(appointments, appointment_id, CompleteUpdate)
        found == FindOne(updated, appointment_id)
    IN /\ appointments' = updated
       /\ response' =
             IF found = {}
             THEN Raise("complete_appointment", "TypeError")
             ELSE Return("complete_appointment", CHOOSE apt \in found : TRUE)
       /\ UNCHANGED <<now, reschedule_history, reminders, tasks>>

\* DetectConflict that leaves a trace of the call in the reminder store.
DetectConflictWriting(req) ==
    /\ response' =
          Return("check_conflict_detection",
                 CheckConflictDetection(appointments, req.doctor_id, req.date, req.time,
                                        req.duration, NoId))
    /\ reminders' = Append(reminders, [appointment_id |-> NoId, reminder_time |-> now,
                                        channel |-> "email", status |-> "scheduled"])
    /\ UNCHANGED <<now, appointments, reschedule_history, tasks>>

\* check_conflict_detection called on its own
DetectConflict(req) ==
    /\ response' =
          Return("check_conflict_detection",
                 CheckConflictDetection(appointments, req.doctor_id, req.date, req.time,
                                        req.duration, NoId))
    /\ UNCHANGED <<now, appointments, reschedule_history, reminders, tasks>>

\* get_real_time_availability called on its own, for one day
GetAvailability(doctor_id, date) ==
    /\ response' =
          Return("get_real_time_availability",
                 [doctor_id |-> doctor_id,
                  date_range |-> [start |-> date, end |-> date],
                  availability |->
                      RealTimeAvailability(appointments, doctor_id, date, date)])
    /\ UNCHANGED <<now, appointments, reschedule_history, reminders, tasks>>

\* Time passes between two calls.
Tick ==
    /\ \E t \in ClockValues : t > now /\ now' = t
    /\ response' = Idle
    /\ UNCHANGED <<appointments, reschedule_history, reminders, tasks>>

RescheduleTargets == { <<1, <<10, 0>>>>, <<1, <<10, 30>>>> }

TimedTargets == { <<1, <<10, 0>>>> }

Reasons == { <<"Emergency">> }

Next ==
    \/ \E req \in TimedInputs : BookAppointment(req)
    \/ \E id \in 1..(Len(appointments) + 1), reason \in Reasons :
          CancelAppointment(id, reason)
    \/ \E id \in 1..(Len(appointments) + 1), target \in TimedTargets :
          RescheduleAppointment(id, target[1], target[2])
    \/ \E id \in 1..(Len(appointments) + 1) : CompleteAppointment(id)
    \/ Tick

Spec == Init /\ [][Next]_vars

\* The same calls with the clock standing still, and the two queries.
NextQuery ==
    \/ \E req \in BookingInputs : BookAppointment(req)
    \/ \E id \in 1..(Len(appointments) + 1), reason \in Reasons :
          CancelAppointment(id, reason)
    \/ \E id \in 1..(Len(appointments) + 1), target \in RescheduleTargets :
          RescheduleAppointment(id, target[1], target[2])
    \/ \E id \in 1..(Len(appointments) + 1) : CompleteAppointment(id)
    \/ \E req \in BookingInputs : DetectConflict(req)
    \/ \E doctor_id \in Doctors, date \in QueryDates : GetAvailability(doctor_id, date)

SpecQuery == Init /\ [][NextQuery]_vars

(***************************************************************************)
(* The service constructed on a database that already holds appointments,   *)
(* in scheduled or in a status of AppointmentStatus that the service reads   *)
(* but never writes itself (confirmed, no_show).                             *)
(***************************************************************************)
SeedStatuses == {"scheduled", "confirmed", "no_show"}

SeedInputs ==
    { req \in BookingInputs :
        req.doctor_id = "d1" /\ req.date = 1 /\ req.time \in {<<10, 0>>, <<9, 59>>} }

\* A document as book_appointment wrote it, with the status it has by now.
SeedDoc(appointment_id, req, status) ==
    [AppointmentDoc(<<>>, req) EXCEPT !.appointment_id = appointment_id,
                                      !.status = status]

SeedStores ==
    UNION { { [ i \in 1..k |-> SeedDoc(i, c[i][1], c[i][2]) ] :
                c \in [1..k -> SeedInputs \X SeedStatuses] } :
            k \in 0..MaxAppointments }

InitStore ==
    /\ now = 0
    /\ appointments \in SeedStores
    /\ reschedule_history = <<>>
    /\ reminders = <<>>
    /\ response = Idle
    /\ tasks = <<>>

NextStore ==
    \/ \E req \in SeedInputs : BookAppointment(req)
    \/ \E id \in 1..(Len(appointments) + 1), reason \in Reasons :
          CancelAppointment(id, reason)
    \/ \E id \in 1..(Len(appointments) + 1), target \in TimedTargets :
          RescheduleAppointment(id, target[1], target[2])
    \/ \E id \in 1..(Len(appointments) + 1) : CompleteAppointment(id)
    \/ \E req \in SeedInputs : DetectConflict(req)

SpecStore == InitStore /\ [][NextStore]_vars

(***************************************************************************)
(* DoctorService.get_available_slots (backend/app/services/                  *)
(* doctor_service.py).  It reads db.appointments documents that carry date,  *)
(* start_time and end_time, and the working_hours of the doctor's document.  *)
(***************************************************************************)
WeekDays ==
    <<"Sunday", "Monday", "Tuesday", "Wednesday", "Thursday", "Friday", "Saturday">>

\* db.doctors: one active doctor, working on Mondays from 09:00 to 10:00.
RegisteredDoctors == {"d1"}

\* doctor["working_hours"].get(day_name); <<>> stands for None
DoctorWorkingHours(day_name) ==
    IF day_name = "Monday" THEN [start |-> <<9, 0>>, end |-> <<10, 0>>] ELSE <<>>

\* any(occupied_start <= slot_start < occupied_end
\*     or occupied_start < slot_end <= occupied_end ...)
IsOccupied(slot_start, slot_end, occupied_slots) ==
    \E occupied \in occupied_slots :
        \/ occupied[1] <= slot_start /\ slot_start < occupied[2]
        \/ occupied[1] < slot_end /\ slot_end <= occupied[2]

\* The while True loop; times are times of day, end_slot_dt.time() wraps at
\* midnight.
RECURSIVE SlotLoop(_, _, _, _)
SlotLoop(current_time, end_time, duration_minutes, occupied_slots) ==
    LET slot_end == (current_time + duration_minutes) % 1440
    IN IF slot_end > end_time THEN <<>>
       ELSE (IF ~IsOccupied(current_time, slot_end, occupied_slots)
             THEN <<[start_time |-> FormatTime(current_time),
                     end_time   |-> FormatTime(slot_end)]>>
             ELSE <<>>)
            \o SlotLoop(slot_end, end_time, duration_minutes, occupied_slots)

\* The list get_available_slots returns for a doctor it found.
AvailableSlots(store, doctor_id, target_date, duration_minutes) ==
    LET working_hours == DoctorWorkingHours(WeekDays[(target_date % 7) + 1])
        booked_appointments ==
            { appt \in Range(store) :
                /\ appt.doctor_id = doctor_id
                /\ appt.date = target_date
                /\ appt.status \in {"scheduled", "confirmed"} }
        occupied_slots ==
            { <<ParseTime(appt.start_time), ParseTime(appt.end_time)>> :
                appt \in booked_appointments }
    IN IF working_hours = <<>> THEN <<>>
       ELSE SlotLoop(ParseTime(working_hours.start), ParseTime(working_hours.end),
                     duration_minutes, occupied_slots)

\* get_available_slots(doctor_id, target_date, duration_minutes)
GetAvailableSlots(doctor_id, target_date, duration_minutes) ==
    /\ response' =
          IF doctor_id \notin RegisteredDoctors
          THEN Raise("get_available_slots", "Doctor not found")
          ELSE Return("get_available_slots",
                      AvailableSlots(appointments, doctor_id, target_date,
                                     duration_minutes))
    /\ UNCHANGED <<now, appointments, reschedule_history, reminders, tasks>>

\* The appointments get_available_slots may find in db.appointments.
BookedIntervals ==
    { <<(<<9, 0>>), (<<9, 30>>)>>, <<(<<9, 15>>), (<<9, 45>>)>>,
      <<(<<9, 30>>), (<<10, 0>>)>> }

BookedStatuses == {"scheduled", "confirmed", "cancelled"}

BookedDocs ==
    { [doctor_id |-> "d1", date |-> 1, start_time |-> interval[1],
       end_time |-> interval[2], status |-> status] :
        interval \in BookedIntervals, status \in BookedStatuses }

BookedStores == UNION { [1..k -> BookedDocs] : k \in 0..MaxAppointments }

SlotDurations == {15, 30, 60}

InitSlots ==
    /\ now = 0
    /\ appointments \in BookedStores
    /\ reschedule_history = <<>>
    /\ reminders = <<>>
    /\ response = Idle
    /\ tasks = <<>>

NextSlots ==
    \E doctor_id \in Doctors, target_date \in QueryDates, duration_minutes \in SlotDurations :
        GetAvailableSlots(doctor_id, target_date, duration_minutes)

SpecSlots == InitSlots /\ [][NextSlots]_vars

(***************************************************************************)
(* The two conflict detectors as queries on a database that already holds   *)
(* appointments: AppointmentService.check_conflict_detection and            *)
(* AppointmentStatisticsService.detect_availability_conflicts               *)
(* (backend/app/services/appointment_statistics_service.py).                *)
(***************************************************************************)
\* The requests of the queries: those of the bookings, and one on a Sunday.
DetectInputs ==
    BookingInputs
    \cup { [doctor_id |-> "d1", date |-> 0, time |-> <<10, 0>>, duration |-> 30] }

\* conflicting_appointments of detect_availability_conflicts: the active
\* appointments of the doctor on the date with
\* apt_start < requested_end and apt_end > requested_start.
AvailabilityConflicts(store, doctor_id, date, time, duration_minutes) ==
    LET requested_start == ParseDateTime(date, time)
        requested_end   == requested_start + duration_minutes
    IN { apt \in Range(store) :
           /\ apt.doctor_id = doctor_id
           /\ apt.appointment_date = date
           /\ apt.status \in {"scheduled", "confirmed", "in_progress"}
           /\ DocStart(apt) < requested_end
           /\ DocEnd(apt) > requested_start }

\* detect_availability_conflicts(doctor_id, date, time, duration_minutes);
\* its suggested_alternatives are not part of the model.
DetectAvailabilityConflicts(req) ==
    LET conflicting_appointments ==
            AvailabilityConflicts(appointments, req.doctor_id, req.date, req.time,
                                  req.duration)
    IN /\ response' =
             Return("detect_availability_conflicts",
                    [conflict_found |-> Cardinality(conflicting_appointments) > 0,
                     conflicting_appointments |->
                         { apt.appointment_id : apt \in conflicting_appointments },
                     checked_time_range |->
                         [start |-> ParseDateTime(req.date, req.time),
                          end   |-> ParseDateTime(req.date, req.time) + req.duration]])
       /\ UNCHANGED <<now, appointments, reschedule_history, reminders, tasks>>

NextDetect ==
    \/ \E req \in DetectInputs : DetectConflict(req)
    \/ \E req \in DetectInputs : DetectAvailabilityConflicts(req)

SpecDetect == InitStore /\ [][NextDetect]_vars

(***************************************************************************)
(* book_appointment as the event loop runs it: a coroutine that can be      *)
(* suspended at each await on the database, with other coroutines running   *)
(* in between.                                                              *)
(***************************************************************************)
\* A request arrives and its coroutine is created.
Submit(req) ==
    /\ Len(tasks) < MaxTasks
    /\ tasks' = Append(tasks, [req |-> req, pc |-> "check", conflict_found |-> FALSE,
                               appointment_doc |-> <<>>, result |-> "none"])
    /\ UNCHANGED <<now, appointments, reschedule_history, reminders, response>>

\* await self.check_conflict_detection(...)
BookCheck(i) ==
    /\ tasks[i].pc = "check"
    /\ tasks' = [tasks EXCEPT
                   ![i].pc = "insert",
                   ![i].conflict_found =
                       ConflictFound(appointments, tasks[i].req.doctor_id,
                                     tasks[i].req.date, tasks[i].req.time,
                                     tasks[i].req.duration, NoId)]
    /\ UNCHANGED <<now, appointments, reschedule_history, reminders, response>>

\* The checks on the result and on the time, then
\* await self.appointments_collection.insert_one(appointment_doc)
BookInsert(i) ==
    LET outcome == BookOutcome(tasks[i].conflict_found, tasks[i].req, now)
        appointment_doc == AppointmentDoc(appointments, tasks[i].req)
    IN /\ tasks[i].pc = "insert"
       /\ IF outcome = "ok"
          THEN /\ appointments' = Append(appointments, appointment_doc)
               /\ tasks' = [tasks EXCEPT ![i].pc = "remind",
                                         ![i].appointment_doc = appointment_doc]
          ELSE /\ tasks' = [tasks EXCEPT ![i].pc = "done", ![i].result = outcome]
               /\ UNCHANGED appointments
       /\ UNCHANGED <<now, reschedule_history, reminders, response>>

\* await self._schedule_reminders(appointment_doc), and the return
BookRemind(i) ==
    /\ tasks[i].pc = "remind"
    /\ reminders' = reminders \o ScheduleReminders(tasks[i].appointment_doc, now)
    /\ tasks' = [tasks EXCEPT ![i].pc = "done", ![i].result = "ok"]
    /\ UNCHANGED <<now, appointments, reschedule_history, response>>

NextConc ==
    \/ \E req \in BookingInputs : Submit(req)
    \/ \E i \in 1..Len(tasks) : BookCheck(i)
    \/ \E i \in 1..Len(tasks) : BookInsert(i)
    \/ \E i \in 1..Len(tasks) : BookRemind(i)

SpecConc == Init /\ [][NextConc]_vars

(***************************************************************************)
(* reschedule_appointment as a coroutine: one step per await on the          *)
(* database.  An await can raise (the database call fails), which ends the   *)
(* coroutine with the writes made so far left in the store: no transaction   *)
(* and no handler undoes them.  One call runs at a time.                     *)
(***************************************************************************)
StepTargets == TimedTargets \cup { <<2, <<0, 30>>>> }

NoCallInFlight == \A i \in 1..Len(tasks) : tasks[i].pc \in {"done", "failed"}

\* str(ObjectId()) in a coroutine: an id that no document of the store has,
\* and no document another coroutine is about to insert.
FreshId(store, ts) ==
    LET used == { apt.appointment_id : apt \in Range(store) }
                \cup { ts[i].new_appointment_data.appointment_id :
                         i \in { k \in 1..Len(ts) : ts[k].pc = "insert" } }
    IN IF used = {} THEN 1
       ELSE 1 + (CHOOSE id \in used : \A other \in used : other <= id)

\* The call arrives: find_one, and the checks on what it found.
RescheduleBegin(appointment_id, new_date, new_time) ==
    LET found == FindOne(appointments, appointment_id)
        task == [appointment_id |-> appointment_id, new_date |-> new_date,
                 new_time |-> new_time, pc |-> "check",
                 current_appointment |-> <<>>, new_appointment_data |-> <<>>,
                 result |-> "none"]
    IN /\ Len(tasks) < MaxTasks
       /\ tasks' =
             Append(tasks,
                    IF found = {}
                    THEN [task EXCEPT !.pc = "done", !.result = "Appointment not found"]
                    ELSE LET current_appointment == CHOOSE apt \in found : TRUE
                         IN IF current_appointment.status \in {"completed", "cancelled"}
                            THEN [task EXCEPT
                                    !.pc = "done",
                                    !.current_appointment = current_appointment,
                                    !.result =
                                        "Cannot reschedule completed or cancelled appointment"]
                            ELSE [task EXCEPT
                                    !.current_appointment = current_appointment])
       /\ UNCHANGED <<now, appointments, reschedule_history, reminders, response>>

\* await self.check_conflict_detection(..., exclude_appointment_id), the raise
\* on a conflict, and new_appointment_data
RescheduleCheck(i) ==
    LET task == tasks[i]
        conflict_found ==
            ConflictFound(appointments, task.current_appointment.doctor_id,
                          task.new_date, task.new_time,
                          task.current_appointment.duration_minutes,
                          task.appointment_id)
    IN /\ task.pc = "check"
       /\ tasks' =
             [tasks EXCEPT
                ![i] = IF conflict_found
                       THEN [task EXCEPT
                               !.pc = "done",
                               !.result =
                                   "New time slot is not available. Please choose a different time."]
                       ELSE [task EXCEPT
                               !.pc = "insert",
                               !.new_appointment_data =
                                   [RescheduledDoc(appointments,
                                                   task.current_appointment,
                                                   task.new_date, task.new_time)
                                      EXCEPT !.appointment_id =
                                                 FreshId(appointments, tasks)]]]
       /\ UNCHANGED <<now, appointments, reschedule_history, reminders, response>>

\* await self.appointments_collection.insert_one(new_appointment_data)
RescheduleInsert(i) ==
    /\ tasks[i].pc = "insert"
    /\ appointments' = Append(appointments, tasks[i].new_appointment_data)
    /\ tasks' = [tasks EXCEPT ![i].pc = "retire"]
    /\ UNCHANGED <<now, reschedule_history, reminders, response>>

\* await self.appointments_collection.update_one(...): the old appointment is
\* marked cancelled
RescheduleRetire(i) ==
    /\ tasks[i].pc = "retire"
    /\ appointments' =
          UpdateOne(appointments, tasks[i].appointment_id,
                    RetireUpdate(tasks[i].new_date, tasks[i].new_time, now))
    /\ tasks' = [tasks EXCEPT ![i].pc = "record"]
    /\ UNCHANGED <<now, reschedule_history, reminders, response>>

\* await self.reschedule_history_collection.insert_one(reschedule_doc)
RescheduleRecord(i) ==
    /\ tasks[i].pc = "record"
    /\ reschedule_history' =
          Append(reschedule_history,
                 [original_appointment_id |-> tasks[i].appointment_id,
                  new_appointment_id |-> tasks[i].new_appointment_data.appointment_id,
                  rescheduled_at |-> now])
    /\ tasks' = [tasks EXCEPT ![i].pc = "remind"]
    /\ UNCHANGED <<now, appointments, reminders, response>>

\* await self._schedule_reminders(new_appointment_data), and the return
RescheduleRemind(i) ==
    /\ tasks[i].pc = "remind"
    /\ reminders' = reminders \o ScheduleReminders(tasks[i].new_appointment_data, now)
    /\ tasks' = [tasks EXCEPT ![i].pc = "done", ![i].result = "ok"]
    /\ UNCHANGED <<now, appointments, reschedule_history, response>>

\* The write the coroutine is waiting on raises: the exception leaves
\* reschedule_appointment, and the writes before it stay.
RescheduleFail(i) ==
    /\ tasks[i].pc \in {"insert", "retire", "record", "remind"}
    /\ tasks' = [tasks EXCEPT ![i].pc = "failed", ![i].result = "database error"]
    /\ UNCHANGED <<now, appointments, reschedule_history, reminders, response>>

NextSteps ==
    \/ NoCallInFlight /\ \E req \in TimedInputs : BookAppointment(req)
    \/ NoCallInFlight /\ \E id \in 1..(Len(appointments) + 1), target \in StepTargets :
          RescheduleBegin(id, target[1], target[2])
    \/ \E i \in 1..Len(tasks) : RescheduleCheck(i)
    \/ \E i \in 1..Len(tasks) : RescheduleInsert(i)
    \/ \E i \in 1..Len(tasks) : RescheduleRetire(i)
    \/ \E i \in 1..Len(tasks) : RescheduleRecord(i)
    \/ \E i \in 1..Len(tasks) : RescheduleRemind(i)
    \/ \E i \in 1..Len(tasks) : RescheduleFail(i)

SpecSteps == Init /\ [][NextSteps]_vars

(***************************************************************************)
(* reschedule_appointment calls served concurrently: the event loop runs     *)
(* another coroutine at every await, so the steps of two calls interleave.   *)
(***************************************************************************)
NextMoves ==
    \/ NoCallInFlight /\ \E req \in TimedInputs : BookAppointment(req)
    \/ \E id \in 1..(Len(appointments) + 1), target \in TimedTargets :
          RescheduleBegin(id, target[1], target[2])
    \/ \E i \in 1..Len(tasks) : RescheduleCheck(i)
    \/ \E i \in 1..Len(tasks) : RescheduleInsert(i)
    \/ \E i \in 1..Len(tasks) : RescheduleRetire(i)
    \/ \E i \in 1..Len(tasks) : RescheduleRecord(i)
    \/ \E i \in 1..Len(tasks) : RescheduleRemind(i)

SpecMoves == Init /\ [][NextMoves]_vars

(***************************************************************************)
(* The two slot walks, one step per iteration of the loop:                   *)
(* "grid" is the while loop of _calculate_day_availability over one          *)
(* working-hour range, "slots" the while True loop of                        *)
(* DoctorService.get_available_slots.  Of the list a walk builds, the frame  *)
(* keeps the slot appended last.                                             *)
(***************************************************************************)
\* Working-hour ranges with start < end inside one day.
WalkRanges ==
    { <<(<<9, 0>>), (<<10, 0>>)>>, <<(<<22, 0>>), (<<23, 30>>)>>,
      <<(<<23, 0>>), (<<23, 45>>)>> }

WalkFrame(walk, range, duration_minutes) ==
    [walk |-> walk, start_time |-> ParseTime(range[1]), end_time |-> ParseTime(range[2]),
     duration_minutes |-> duration_minutes, current_time |-> ParseTime(range[1]),
     emitted |-> <<>>, pc |-> "loop"]

InitWalk ==
    /\ now = 0
    /\ appointments = <<>>
    /\ reschedule_history = <<>>
    /\ reminders = <<>>
    /\ response = Idle
    /\ tasks \in
          { <<WalkFrame("grid", range, SlotMinutes)>> : range \in WalkRanges }
          \cup { <<WalkFrame("slots", range, duration_minutes)>> :
                    range \in WalkRanges, duration_minutes \in SlotDurations }

\* One pass through "while current_time < end_time" of
\* _calculate_day_availability.
GridStep(i) ==
    LET frame == tasks[i]
        slot_end_time == (frame.current_time + SlotMinutes) % 1440
        slot == [start_time |-> FormatTime(frame.current_time),
                 end_time   |-> FormatTime(slot_end_time)]
    IN /\ frame.walk = "grid"
       /\ frame.pc = "loop"
       /\ tasks' =
             [tasks EXCEPT
                ![i] = IF ~(frame.current_time < frame.end_time)
                       THEN [frame EXCEPT !.pc = "done"]
                       ELSE [frame EXCEPT
                               !.emitted = IF slot_end_time <= frame.end_time
                                           THEN slot ELSE frame.emitted,
                               !.current_time = slot_end_time]]
       /\ UNCHANGED <<now, appointments, reschedule_history, reminders, response>>

\* One pass through "while True" of get_available_slots (no appointment is
\* booked, so no slot is occupied).
SlotsStep(i) ==
    LET frame == tasks[i]
        slot_end == (frame.current_time + frame.duration_minutes) % 1440
        slot == [start_time |-> FormatTime(frame.current_time),
                 end_time   |-> FormatTime(slot_end)]
    IN /\ frame.walk = "slots"
       /\ frame.pc = "loop"
       /\ tasks' =
             [tasks EXCEPT
                ![i] = IF slot_end > frame.end_time
                       THEN [frame EXCEPT !.pc = "done"]
                       ELSE [frame EXCEPT
                               !.emitted = IF ~IsOccupied(frame.current_time, slot_end, {})
                                           THEN slot ELSE frame.emitted,
                               !.current_time = slot_end]]
       /\ UNCHANGED <<now, appointments, reschedule_history, reminders, response>>

NextWalk ==
    \/ \E i \in 1..Len(tasks) : GridStep(i)
    \/ \E i \in 1..Len(tasks) : SlotsStep(i)

\* A running loop goes on to its next iteration.
SpecWalk == InitWalk /\ [][NextWalk]_vars /\ WF_vars(NextWalk)

(***************************************************************************)
(* Properties.                                                              *)
(***************************************************************************)
\* Half-open interval overlap: a.start < b.end and b.start < a.end.
Overlap(a_start, a_end, b_start, b_end) == a_start < b_end /\ b_start < a_end

ReqStart(req) == ParseDateTime(req.date, req.time)

ReqEnd(req) == ReqStart(req) + req.duration

Active(apt) == apt.status \in {"scheduled", "confirmed", "in_progress"}

\* C1: No double-booking under concurrency.  Of two book_appointment requests
\* for the same provider and date whose [start,end) intervals overlap, at most
\* one succeeds, however their conflict checks and inserts interleave.
C1_NoDoubleBooking ==
    \A i \in 1..Len(tasks), j \in 1..Len(tasks) :
        ( /\ i < j
          /\ tasks[i].req.doctor_id = tasks[j].req.doctor_id
          /\ tasks[i].req.date = tasks[j].req.date
          /\ Overlap(ReqStart(tasks[i].req), ReqEnd(tasks[i].req),
                     ReqStart(tasks[j].req), ReqEnd(tasks[j].req)) )
        => ~(tasks[i].result = "ok" /\ tasks[j].result = "ok")

\* C2: Active-overlap invariant.  After any sequence of book, reschedule,
\* cancel and complete calls run one at a time, two appointments of the same
\* provider whose [start, start+duration) intervals overlap are never both in
\* an active status.
C2_ActiveOverlapInvariant ==
    \A i \in 1..Len(appointments), j \in 1..Len(appointments) :
        ( /\ i < j
          /\ appointments[i].doctor_id = appointments[j].doctor_id
          /\ Overlap(DocStart(appointments[i]), DocEnd(appointments[i]),
                     DocStart(appointments[j]), DocEnd(appointments[j])) )
        => ~(Active(appointments[i]) /\ Active(appointments[j]))

\* C3: Overlap correctness.  check_conflict_detection returns conflict_found
\* exactly when the candidate [start, start+duration) overlaps, by the
\* half-open rule, an active appointment of the same provider; a candidate that
\* only touches an appointment is no conflict.
C3_OverlapCorrectness ==
    [][ \A req \in BookingInputs :
          DetectConflict(req) =>
            ( response'.value.conflict_found
              <=> \E apt \in Range(appointments) :
                     /\ apt.doctor_id = req.doctor_id
                     /\ Active(apt)
                     /\ Overlap(ReqStart(req), ReqEnd(req), DocStart(apt), DocEnd(apt)) )
      ]_vars

\* The stored document with this id.
Stored(appointment_id) ==
    CHOOSE apt \in Range(appointments) : apt.appointment_id = appointment_id

\* C4: Reschedule postcondition.  After a successful reschedule_appointment
\* exactly one active appointment of the provider covers the new time, the old
\* appointment is cancelled with reason "Rescheduled to <new date> <new time>",
\* and exactly one RescheduleRecord links the old id to the new id.
C4_ReschedulePostcondition ==
    (response.op = "reschedule_appointment" /\ response.result = "ok") =>
        LET old == response.value.old_appointment
            new == response.value.new_appointment
        IN /\ Cardinality({ apt \in Range(appointments) :
                              /\ apt.doctor_id = old.doctor_id
                              /\ Active(apt)
                              /\ Overlap(DocStart(new), DocEnd(new),
                                         DocStart(apt), DocEnd(apt)) }) = 1
           /\ Stored(old.appointment_id).status = "cancelled"
           /\ Stored(old.appointment_id).cancellation_reason =
                 <<"Rescheduled to", new.appointment_date, new.appointment_time>>
           /\ Cardinality({ k \in 1..Len(reschedule_history) :
                              /\ reschedule_history[k].original_appointment_id =
                                    old.appointment_id
                              /\ reschedule_history[k].new_appointment_id =
                                    new.appointment_id }) = 1

\* The booking request for a slot of an availability response.
SlotRequest(doctor_id, date, slot) ==
    [doctor_id |-> doctor_id, date |-> date, time |-> slot.start_time,
     duration |-> ParseTime(slot.end_time) - ParseTime(slot.start_time)]

\* C5: Availability/booking consistency.  A slot that
\* get_real_time_availability reports available can be booked right away (same
\* provider, date, start and slot length, timing preconditions met): the
\* booking is not rejected as a conflict.
C5_AvailableIsBookable ==
    response.op = "get_real_time_availability" =>
        \A k \in 1..Len(response.value.availability) :
            LET day == response.value.availability[k]
            IN \A n \in 1..Len(day.slots) :
                 LET req == SlotRequest(response.value.doctor_id, day.date, day.slots[n])
                 IN (day.slots[n].is_available /\ ReqStart(req) >= now + 24 * 60)
                    => BookOutcome(ConflictFound(appointments, req.doctor_id, req.date,
                                                 req.time, req.duration, NoId),
                                   req, now) = "ok"

\* C6: Refund tiers are boundary-exact.  With t = appointment start minus the
\* time of cancellation: 100% when t >= 24h, 50% when 6h <= t < 24h, 0% when
\* t < 6h, and the amount is the base fee times the percentage over 100.
C6_RefundTiers ==
    (response.op = "cancel_appointment" /\ response.result = "ok") =>
        LET v == response.value
            t == DocStart(Stored(v.appointment_id)) - v.cancelled_at
        IN /\ (t >= 24 * 60 => v.refund_percentage = 100)
           /\ (t >= 6 * 60 /\ t < 24 * 60 => v.refund_percentage = 50)
           /\ (t < 6 * 60 => v.refund_percentage = 0)
           /\ v.refund_amount * 100 = consultation_fee * v.refund_percentage

\* A cancellation exactly 24 hours ahead (100%), in a store that also holds an
\* appointment cancelled 23h59m ahead with half the fee refunded.
C6_Witness ==
    /\ response.op = "cancel_appointment"
    /\ response.result = "ok"
    /\ DocStart(Stored(response.value.appointment_id)) - response.value.cancelled_at = 24 * 60
    /\ response.value.refund_percentage = 100
    /\ \E apt \in Range(appointments) :
          /\ apt.status = "cancelled"
          /\ DocStart(apt) - apt.cancelled_at = 24 * 60 - 1
          /\ apt.refund_amount = 50

\* C7: Availability grid occupancy.  A slot of the grid is flagged occupied
\* exactly when its [start,end) overlaps, by the half-open rule, an active
\* appointment of the provider on that date.
C7_GridOccupancy ==
    response.op = "get_real_time_availability" =>
        \A k \in 1..Len(response.value.availability) :
            LET day == response.value.availability[k]
            IN \A n \in 1..Len(day.slots) :
                 ~day.slots[n].is_available
                 <=> \E apt \in Range(appointments) :
                        /\ apt.doctor_id = response.value.doctor_id
                        /\ Active(apt)
                        /\ apt.appointment_date = day.date
                        /\ Overlap(ParseDateTime(day.date, day.slots[n].start_time),
                                   ParseDateTime(day.date, day.slots[n].end_time),
                                   DocStart(apt), DocEnd(apt))

\* The availability example: the grid just returned is that of a Monday for a
\* provider whose only active appointment is 10:00-10:30 on that Monday.
C8_Example ==
    /\ response.op = "get_real_time_availability"
    /\ DayName(response.value.date_range.start) = "monday"
    /\ Len(response.value.availability) = 1
    /\ \E apt \in Range(appointments) :
          /\ apt.doctor_id = response.value.doctor_id
          /\ Active(apt)
          /\ apt.appointment_date = response.value.date_range.start
          /\ apt.appointment_time = <<10, 0>>
          /\ apt.duration_minutes = 30
          /\ \A other \in Range(appointments) :
                (other.doctor_id = response.value.doctor_id /\ Active(other))
                => other = apt

\* The marks of the example: slots every 30 minutes from 09:00, the last one
\* starting at 16:30, all available but the 10:00 one.
C8_Marks(slots) ==
    /\ Len(slots) > 0
    /\ slots[1].start_time = <<9, 0>>
    /\ slots[Len(slots)].start_time = <<16, 30>>
    /\ \A n \in 1..Len(slots) :
          /\ ParseTime(slots[n].start_time) = 9 * 60 + 30 * (n - 1)
          /\ ParseTime(slots[n].end_time) = ParseTime(slots[n].start_time) + 30
          /\ slots[n].is_available <=> slots[n].start_time # <<10, 0>>
    /\ Cardinality({ n \in 1..Len(slots) : ~slots[n].is_available }) = 1

\* C8 as stated: in the example the grid marks 09:00 and 09:30 available, 10:00
\* occupied, 10:30 through 16:30 available, for 15 slots in total.
C8_ExampleFifteenSlots ==
    C8_Example =>
        /\ C8_Marks(response.value.availability[1].slots)
        /\ Len(response.value.availability[1].slots) = 15

\* C8 as amended: the same marks, for 16 slots in total of which 1 is occupied.
C8_ExampleSixteenSlots ==
    C8_Example =>
        /\ C8_Marks(response.value.availability[1].slots)
        /\ Len(response.value.availability[1].slots) = 16

C8_Witness == C8_Example

\* C9: A booking whose start is in the past fails with the timing error
\* "Appointment must be scheduled for a future time", whether or not the slot
\* is free.
C9_PastBookingIsTimingError ==
    [][ \A req \in BookingInputs :
          (BookAppointment(req) /\ ReqStart(req) <= now)
          => response'.result = "Appointment must be scheduled for a future time."
      ]_vars

\* C10: Lead-time precondition.  book_appointment succeeds only when the start
\* is at least 24 hours after now; a rejected request leaves the appointment
\* store and the reminder store unchanged.  (Only book_appointment hands back
\* a book_appointment result, and the booked document carries the request.)
C10_LeadTime ==
    [][ response'.op = "book_appointment" =>
          /\ (response'.result = "ok" => DocStart(response'.value) >= now + 24 * 60)
          /\ (response'.result # "ok"
              => appointments' = appointments /\ reminders' = reminders)
      ]_vars

\* A request inside the 24 hours was rejected while the store holds appointments.
C10_Witness ==
    /\ response.op = "book_appointment"
    /\ response.result = "Appointments must be booked at least 24 hours in advance."
    /\ Len(appointments) > 0
    /\ Len(reminders) > 0

\* C11: When the conflict check reports a conflict, book_appointment fails
\* with the slot-unavailable error and mutates nothing (no appointment
\* inserted, no reminder created); when it reports no conflict and the timing
\* preconditions hold, exactly one appointment is inserted, in status scheduled.
C11_BookConflictOrInsert ==
    [][ response'.op = "book_appointment" =>
        \A req \in BookingInputs :
          BookAppointment(req) =>
            LET conflicts == ConflictQuery(appointments, req.doctor_id, req.date,
                                           req.time, req.duration, NoId)
            IN /\ conflicts # {} =>
                    /\ response'.result =
                          "Time slot is not available. Please choose a different time."
                    /\ appointments' = appointments
                    /\ reminders' = reminders
               /\ (conflicts = {} /\ ReqStart(req) >= now + 24 * 60) =>
                    /\ response'.result = "ok"
                    /\ Len(appointments') = Len(appointments) + 1
                    /\ SubSeq(appointments', 1, Len(appointments)) = appointments
                    /\ appointments'[Len(appointments')].status = "scheduled"
                    /\ appointments'[Len(appointments')].doctor_id = req.doctor_id
                    /\ appointments'[Len(appointments')].appointment_date = req.date
                    /\ appointments'[Len(appointments')].appointment_time = req.time
                    /\ appointments'[Len(appointments')].duration_minutes = req.duration
      ]_vars

\* A request was rejected as a conflict while a later request, with the clock
\* moved on, could still have met the timing preconditions.
C11_Witness ==
    /\ response.op = "book_appointment"
    /\ response.result = "Time slot is not available. Please choose a different time."
    /\ now > 0
    /\ \E apt \in Range(appointments) : Active(apt) /\ DocStart(apt) >= now + 24 * 60

\* C12: cancel_appointment on an appointment whose status is completed,
\* cancelled or no_show fails with the invalid-state error and leaves the
\* appointment record as it was.
C12_CancelTerminalRejected ==
    [][ \A id \in 1..Len(appointments), reason \in Reasons :
          ( /\ CancelAppointment(id, reason)
            /\ \E apt \in Range(appointments) :
                  /\ apt.appointment_id = id
                  /\ apt.status \in {"completed", "cancelled", "no_show"} )
          => /\ response'.result =
                   "Cannot cancel completed or already cancelled appointment"
             /\ appointments' = appointments
      ]_vars

\* C13: A successful cancel_appointment sets the stored appointment's status
\* to cancelled and records on it cancelled_at, cancellation_reason,
\* refund_amount, refund_percentage and refund_status (pending exactly when the
\* refund amount is > 0, not_applicable otherwise); the returned decision
\* carries the same amount, percentage and reason.
C13_CancelRecordsDecision ==
    (response.op = "cancel_appointment" /\ response.result = "ok") =>
        LET v == response.value
            doc == Stored(v.appointment_id)
        IN /\ doc.status = "cancelled"
           /\ doc.cancelled_at = v.cancelled_at
           /\ doc.cancellation_reason = v.cancellation_reason
           /\ doc.refund_amount = v.refund_amount
           /\ doc.refund_status = v.refund_status
           /\ (doc.refund_status = "pending" <=> doc.refund_amount > 0)
           /\ (doc.refund_status = "not_applicable" <=> ~(doc.refund_amount > 0))
           /\ "refund_percentage" \in DOMAIN doc
           /\ doc.refund_percentage = v.refund_percentage

\* C14: cancel_appointment and reschedule_appointment called with an id that
\* is not in the store fail with the not-found error and change nothing in the
\* appointment, reschedule-history and reminder stores.
C14_NotFoundChangesNothing ==
    [][ response'.op \in {"cancel_appointment", "reschedule_appointment"} =>
        \A id \in 1..(Len(appointments) + 1) :
          (\A apt \in Range(appointments) : apt.appointment_id # id) =>
            /\ \A reason \in Reasons :
                  CancelAppointment(id, reason) =>
                    /\ response'.result = "Appointment not found"
                    /\ UNCHANGED <<appointments, reschedule_history, reminders>>
            /\ \A target \in RescheduleTargets :
                  RescheduleAppointment(id, target[1], target[2]) =>
                    /\ response'.result = "Appointment not found"
                    /\ UNCHANGED <<appointments, reschedule_history, reminders>>
      ]_vars

\* reschedule_appointment did not find the id, in a store that holds
\* appointments, a reschedule record and reminders.
C14_Witness ==
    /\ response.op = "reschedule_appointment"
    /\ response.result = "Appointment not found"
    /\ Len(appointments) > 0
    /\ Len(reschedule_history) > 0
    /\ Len(reminders) > 0

\* C16: Terminal states.  Once an appointment's status is completed or
\* cancelled, no later cancel_appointment, reschedule_appointment or
\* complete_appointment call on its id changes its status.
C16_TerminalStatesStay ==
    [][ \A i \in 1..Len(appointments) :
          appointments[i].status \in {"completed", "cancelled"}
          => appointments'[i].status = appointments[i].status
      ]_vars

\* C15: DoctorService.get_available_slots excludes booked time.  For every
\* slot duration and every set of scheduled/confirmed appointments of the
\* doctor on the target date, no returned slot [start,end) overlaps a booked
\* [start_time,end_time), a slot that strictly contains a shorter booked
\* appointment included.
C15_SlotsExcludeBooked ==
    [][ \A doctor_id \in Doctors, target_date \in QueryDates,
           duration_minutes \in SlotDurations :
          ( /\ GetAvailableSlots(doctor_id, target_date, duration_minutes)
            /\ response'.result = "ok" )
          => \A n \in 1..Len(response'.value), appt \in Range(appointments) :
                ( /\ appt.doctor_id = doctor_id
                  /\ appt.date = target_date
                  /\ appt.status \in {"scheduled", "confirmed"} )
                => ~Overlap(ParseTime(response'.value[n].start_time),
                            ParseTime(response'.value[n].end_time),
                            ParseTime(appt.start_time), ParseTime(appt.end_time))
      ]_vars

\* C17: Reschedule partial failure.  If reschedule_appointment stops after
\* any prefix of its store writes (insert of the new appointment, update of the
\* old one to cancelled, insert of the RescheduleRecord), the provider is left
\* with neither zero nor two active appointments for the moved booking: of the
\* old appointment and its successor, exactly one is active.
C17_PartialFailureKeepsOne ==
    [][ \A i \in 1..Len(tasks) :
          (RescheduleFail(i) /\ Active(tasks[i].current_appointment)) =>
            Cardinality({ apt \in Range(appointments') :
                            /\ apt.appointment_id \in
                                  { tasks[i].appointment_id,
                                    tasks[i].new_appointment_data.appointment_id }
                            /\ Active(apt) }) = 1
      ]_vars

\* C19: Self-exclusion during reschedule.  Rescheduling an active appointment
\* is rejected as a conflict exactly when an active appointment of the provider
\* other than the one being moved overlaps the new slot; a new slot that
\* overlaps only the appointment's own interval is accepted.
C19_SelfExclusion ==
    [][ \A i \in 1..Len(tasks) :
          (RescheduleCheck(i) /\ Active(tasks[i].current_appointment)) =>
            LET current == tasks[i].current_appointment
                new_start == ParseDateTime(tasks[i].new_date, tasks[i].new_time)
                new_end == new_start + current.duration_minutes
            IN ( tasks'[i].result =
                    "New time slot is not available. Please choose a different time." )
               <=> \E other \in Range(appointments) :
                      /\ other.appointment_id # tasks[i].appointment_id
                      /\ other.doctor_id = current.doctor_id
                      /\ Active(other)
                      /\ Overlap(new_start, new_end, DocStart(other), DocEnd(other))
      ]_vars

\* C18: When the conflict check for the new slot reports a conflict,
\* reschedule_appointment fails with the slot-unavailable error and changes
\* nothing: the old appointment keeps its status, date and time, no appointment
\* is inserted, no RescheduleRecord is written and no reminder is created.
\* (The call ends at the check: a coroutine at "done" takes no further step.)
C18_RescheduleConflictChangesNothing ==
    [][ \A i \in 1..Len(tasks) :
          ( /\ RescheduleCheck(i)
            /\ ConflictQuery(appointments, tasks[i].current_appointment.doctor_id,
                             tasks[i].new_date, tasks[i].new_time,
                             tasks[i].current_appointment.duration_minutes,
                             tasks[i].appointment_id) # {} )
          => /\ tasks'[i].pc = "done"
             /\ tasks'[i].result =
                   "New time slot is not available. Please choose a different time."
             /\ UNCHANGED <<appointments, reschedule_history, reminders>>
      ]_vars

\* A reschedule was rejected as a conflict, in a store with reminders.
C18_Witness ==
    /\ \E i \in 1..Len(tasks) :
          /\ tasks[i].pc = "done"
          /\ tasks[i].result =
                "New time slot is not available. Please choose a different time."
    /\ Len(reminders) > 0

\* The store without its cancelled, completed and no_show appointments.
WithoutInactive(store) ==
    SelectSeq(store, LAMBDA apt : apt.status \notin {"cancelled", "completed", "no_show"})

\* check_conflict_detection answers the same on the store and on the store
\* without its cancelled, completed and no_show appointments.
InactiveNeverConflict ==
    \A req \in BookingInputs :
        LET all == CheckConflictDetection(appointments, req.doctor_id, req.date,
                                          req.time, req.duration, NoId)
            kept == CheckConflictDetection(WithoutInactive(appointments), req.doctor_id,
                                           req.date, req.time, req.duration, NoId)
        IN /\ all.conflict_found = kept.conflict_found
           /\ all.conflicting_appointments = kept.conflicting_appointments

\* After a successful cancel_appointment, a booking of the cancelled
\* appointment's slot is not rejected as a conflict, unless another
\* appointment already made the check report one.
FreedSlotIsBookable ==
    \A id \in 1..Len(appointments), reason \in Reasons :
        (CancelAppointment(id, reason) /\ response'.result = "ok") =>
            LET apt == Stored(id)
                req == [doctor_id |-> apt.doctor_id, date |-> apt.appointment_date,
                        time |-> apt.appointment_time, duration |-> apt.duration_minutes]
            IN ConflictQuery(appointments, req.doctor_id, req.date, req.time,
                             req.duration, id) = {}
               => BookOutcome(CheckConflictDetection(appointments', req.doctor_id,
                                                     req.date, req.time, req.duration,
                                                     NoId).conflict_found,
                              req, now) = TimingCheck(req, now)

\* C20: Appointments in status cancelled, completed or no_show never
\* contribute to a conflict: whatever the store holds in those statuses,
\* conflict_found and conflicting_appointments of check_conflict_detection are
\* the same; and a slot freed by cancel_appointment can be booked again.
C20_InactiveNeverConflict ==
    []InactiveNeverConflict /\ [][FreedSlotIsBookable]_vars

\* The slot of a cancelled appointment was booked again.
C20_Witness ==
    /\ response.op = "book_appointment"
    /\ response.result = "ok"
    /\ \E apt \in Range(appointments) :
          /\ apt.status = "cancelled"
          /\ apt.doctor_id = response.value.doctor_id
          /\ apt.appointment_date = response.value.appointment_date
          /\ apt.appointment_time = response.value.appointment_time

\* The reminders of the last `added` ones that carry this channel.
RemindersOn(added, channel) ==
    { k \in 1..Len(added) : added[k].channel = channel }

\* C21: Reminder scheduling.  For a booked or rescheduled appointment and each
\* of the two offsets (24 hours, 1 hour before start), exactly one reminder in
\* status scheduled is created if start - offset is strictly after now and none
\* otherwise; the 24-hour reminder is on channel email, the 1-hour one on sms,
\* and each fire time is start minus the offset.
C21_ReminderScheduling ==
    [][ ( /\ response'.op \in {"book_appointment", "reschedule_appointment"}
          /\ response'.result = "ok" ) =>
          LET apt == IF response'.op = "book_appointment"
                     THEN response'.value
                     ELSE response'.value.new_appointment
              added == SubSeq(reminders', Len(reminders) + 1, Len(reminders'))
          IN /\ SubSeq(reminders', 1, Len(reminders)) = reminders
             /\ Cardinality(RemindersOn(added, "email")) =
                   (IF DocStart(apt) - 24 * 60 > now THEN 1 ELSE 0)
             /\ Cardinality(RemindersOn(added, "sms")) =
                   (IF DocStart(apt) - 60 > now THEN 1 ELSE 0)
             /\ \A k \in 1..Len(added) :
                   /\ added[k].appointment_id = apt.appointment_id
                   /\ added[k].status = "scheduled"
                   /\ added[k].channel \in {"email", "sms"}
                   /\ added[k].channel = "email"
                      => added[k].reminder_time = DocStart(apt) - 24 * 60
                   /\ added[k].channel = "sms"
                      => added[k].reminder_time = DocStart(apt) - 60
      ]_vars

\* An appointment booked exactly 24 hours ahead got its 1-hour reminder and no
\* 24-hour reminder.
C21_Witness ==
    /\ response.op = "book_appointment"
    /\ response.result = "ok"
    /\ DocStart(response.value) = now + 24 * 60
    /\ \E k \in 1..Len(reminders) :
          /\ reminders[k].appointment_id = response.value.appointment_id
          /\ reminders[k].channel = "sms"
    /\ \A k \in 1..Len(reminders) :
          reminders[k].appointment_id = response.value.appointment_id
          => reminders[k].channel # "email"

\* Every slot a walk appends lies in the range, ends after it starts, and
\* starts after the slot appended before it.
WalkEmitsInOrder ==
    \A i \in 1..Len(tasks) :
        tasks'[i].emitted # tasks[i].emitted =>
            LET slot == tasks'[i].emitted
            IN /\ tasks[i].start_time <= ParseTime(slot.start_time)
               /\ ParseTime(slot.start_time) < ParseTime(slot.end_time)
               /\ ParseTime(slot.end_time) <= tasks[i].end_time
               /\ tasks[i].emitted # <<>>
                  => ParseTime(tasks[i].emitted.start_time) < ParseTime(slot.start_time)

\* C22: Slot-grid generation terminates.  For every working-hour range with
\* start < end inside one day (ranges ending after 23:30 included) and every
\* slot duration, both slot walks reach their exit after finitely many steps
\* and emit only slots with range start <= slot start < slot end <= range end,
\* in strictly increasing start order.
C22_WalkTerminates ==
    /\ <>(\A i \in 1..Len(tasks) : tasks[i].pc = "done")
    /\ [][WalkEmitsInOrder]_vars

C24_SuggestedAlternatives ==
    [][ response'.op = "check_conflict_detection" =>
        \A req \in DetectInputs :
          DetectConflict(req) =>
            LET alts == response'.value.suggested_alternatives
                day == RealTimeAvailability(appointments, req.doctor_id,
                                            req.date, req.date)[1]
                grid == day.slots
            IN /\ Len(alts) <= 5
               /\ \A k \in 1..Len(alts) :
                     /\ alts[k].date = req.date
                     /\ \E n \in 1..Len(grid) :
                           /\ grid[n].is_available
                           /\ grid[n].start_time = alts[k].time
                           /\ grid[n].end_time = alts[k].end_time
               /\ \A k \in 1..(Len(alts) - 1) :
                     ParseTime(alts[k].time) < ParseTime(alts[k + 1].time)
               /\ \A n \in 1..Len(grid) :
                     ( /\ grid[n].is_available
                       /\ \A k \in 1..Len(alts) : alts[k].time # grid[n].start_time )
                     => /\ Len(alts) = 5
                        /\ ParseTime(grid[n].start_time) > ParseTime(alts[5].time)
               /\ ~day.is_working_day => alts = <<>>
      ]_vars

\* Five alternatives were returned, and they pass over the occupied 10:00 slot.
C24_Witness ==
    /\ response.op = "check_conflict_detection"
    /\ Len(response.value.suggested_alternatives) = 5
    /\ response.value.suggested_alternatives[2].time = <<9, 30>>
    /\ response.value.suggested_alternatives[3].time = <<10, 30>>

\* C27: The two conflict detectors agree.  For every store content and every
\* (doctor, date, time, duration), check_conflict_detection (no excluded id)
\* and detect_availability_conflicts return the same conflict_found and the
\* same set of conflicting appointment ids.
C27_DetectorsAgree ==
    [][ response'.op = "detect_availability_conflicts" =>
        \A req \in DetectInputs :
          DetectAvailabilityConflicts(req) =>
            LET check == CheckConflictDetection(appointments, req.doctor_id, req.date,
                                                req.time, req.duration, NoId)
            IN /\ response'.value.conflict_found = check.conflict_found
               /\ response'.value.conflicting_appointments =
                     check.conflicting_appointments
      ]_vars

\* C25: One RescheduleRecord per reschedule.  In every reachable state, also
\* after two reschedule_appointment calls for the same appointment id ran
\* interleaved, each appointment id is the original_appointment_id of at most
\* one RescheduleRecord and has at most one successor appointment, and existing
\* RescheduleRecords are never modified or deleted.
OneRecordPerOriginal ==
    \A i, j \in 1..Len(reschedule_history) :
        reschedule_history[i].original_appointment_id
          = reschedule_history[j].original_appointment_id
        => /\ i = j
           /\ reschedule_history[i].new_appointment_id
                = reschedule_history[j].new_appointment_id

RecordsKept ==
    /\ Len(reschedule_history') >= Len(reschedule_history)
    /\ SubSeq(reschedule_history', 1, Len(reschedule_history)) = reschedule_history

C25_OneRecordPerReschedule == []OneRecordPerOriginal /\ [][RecordsKept]_vars

\* C26: The slot taken by a reschedule is protected.  After a successful
\* reschedule_appointment, as long as the successor appointment has not been
\* cancelled or completed, a book_appointment for the same provider whose
\* interval overlaps the successor's interval is rejected as a conflict.
C26_RescheduledSlotProtected ==
    \A i \in 1..Len(reschedule_history) :
        \A successor \in FindOne(appointments, reschedule_history[i].new_appointment_id) :
            successor.status \notin {"cancelled", "completed"} =>
                \A req \in BookingInputs :
                    ( /\ req.doctor_id = successor.doctor_id
                      /\ Overlap(ReqStart(req), ReqEnd(req),
                                 DocStart(successor), DocEnd(successor)) )
                    => BookOutcome(ConflictFound(appointments, req.doctor_id, req.date,
                                                 req.time, req.duration, NoId),
                                   req, now)
                         = "Time slot is not available. Please choose a different time."

\* C28: Flag/status consistency.  In every state reachable by book, cancel,
\* reschedule and complete, every stored appointment has is_cancelled = true
\* iff its status is cancelled, and cancelled_at set iff its status is cancelled.
C28_FlagStatusConsistency ==
    \A apt \in Range(appointments) :
        /\ apt.is_cancelled <=> apt.status = "cancelled"
        /\ apt.cancelled_at # NoTime <=> apt.status = "cancelled"

\* C29: Reminders are never retired by the engine.  cancel_appointment,
\* reschedule_appointment and complete_appointment leave every existing
\* reminder unchanged, so every reminder stays in status scheduled, also after
\* its appointment was cancelled or retired by a reschedule.
RemindersKept ==
    response'.op \in {"cancel_appointment", "reschedule_appointment",
                      "complete_appointment"}
    => /\ Len(reminders') >= Len(reminders)
       /\ SubSeq(reminders', 1, Len(reminders)) = reminders

C29_RemindersNeverRetired ==
    /\ [](\A k \in 1..Len(reminders) : reminders[k].status = "scheduled")
    /\ [][RemindersKept]_vars

\* An appointment with reminders was cancelled, and its reminders are still
\* scheduled.
C29_Witness ==
    /\ response.op = "cancel_appointment"
    /\ response.result = "ok"
    /\ \E k \in 1..Len(reminders) :
          /\ reminders[k].appointment_id = response.value.appointment_id
          /\ reminders[k].status = "scheduled"
    /\ Stored(response.value.appointment_id).status = "cancelled"

\* C30: reschedule_appointment applies the timing preconditions of booking.  A
\* reschedule whose new start is in the past or less than 24 hours after now is
\* rejected and changes nothing.
C30_RescheduleTiming ==
    [][ response'.op = "reschedule_appointment" =>
        \A id \in 1..(Len(appointments) + 1), target \in TimedTargets :
          ( /\ RescheduleAppointment(id, target[1], target[2])
            /\ TimingCheck([date |-> target[1], time |-> target[2]], now) # "ok" )
          => /\ response'.result # "ok"
             /\ UNCHANGED <<appointments, reschedule_history, reminders>>
      ]_vars

====
